---- MODULE Spec2Model ----
(***************************************************************************)
(* A model of src/app.py: the Flask webhook receiver that normalises       *)
(* GitHub push / pull_request events into documents of one MongoDB         *)
(* collection and serves the latest of them on GET /api/events.            *)
(*                                                                         *)
(* Python strings are sequences of one-character strings, so that          *)
(* str.replace, str.startswith and the formatting of numbers are computed  *)
(* as the interpreter computes them.  A JSON / Python value is a record    *)
(* [t, n, s]: its type tag, its number (bool as 0/1, the length of a list  *)
(* or dict, the minute of a datetime) and its characters.                  *)
(***************************************************************************)
EXTENDS Integers, Sequences, FiniteSets, TLC

VARIABLES store, clock, pc, held, resp, remaining, events_out, arg, ret

vars == <<store, clock, pc, held, resp, remaining, events_out, arg, ret>>

(***************************************************************************)
(* Bounds of the model.                                                    *)
(***************************************************************************)
NumWorkers == 2
MaxRequests == 2
MaxTicks == 1
MaxPieces == 3
MaxDeviations == 1

(***************************************************************************)
(* Python values.                                                          *)
(***************************************************************************)
JAbsent == [t |-> "absent", n |-> 0, s |-> <<>>]
JNull == [t |-> "null", n |-> 0, s |-> <<>>]
JBool(b) == [t |-> "bool", n |-> IF b THEN 1 ELSE 0, s |-> <<>>]
JNum(k) == [t |-> "num", n |-> k, s |-> <<>>]
JStr(cs) == [t |-> "str", n |-> 0, s |-> cs]
JList(len) == [t |-> "list", n |-> len, s |-> <<>>]
JObj(len) == [t |-> "obj", n |-> len, s |-> <<>>]
JInvalid == [t |-> "invalid", n |-> 0, s |-> <<>>]
PyDatetime(minute) == [t |-> "datetime", n |-> minute, s |-> <<>>]

\* bool(v): None, False, 0, "", [] and {} are falsy; a missing key reads as None.
Truthy(v) ==
    CASE v.t = "str" -> v.s # <<>>
      [] v.t \in {"bool", "num", "list", "obj"} -> v.n # 0
      [] v.t = "datetime" -> TRUE
      [] OTHER -> FALSE

IsDict(v) == v.t = "obj"
IsStrValue(v) == v.t = "str"
IsDatetime(v) == v.t = "datetime"

\* v == "literal"
EqStr(v, cs) == v.t = "str" /\ v.s = cs

\* x or y
PyOr(x, y) == IF Truthy(x) THEN x ELSE y

\* d.get(k, default) and d.get(k) on the value found under k
GetOr(v, default) == IF v.t = "absent" THEN default ELSE v
GetNone(v) == GetOr(v, JNull)

\* the outcome of a call: a value, or an exception that leaves the function
Ok(v) == [raised |-> FALSE, v |-> v]
Raise == [raised |-> TRUE, v |-> JNull]

(***************************************************************************)
(* str methods.                                                            *)
(***************************************************************************)
StartsWith(cs, pre) ==
    Len(cs) >= Len(pre) /\ SubSeq(cs, 1, Len(pre)) = pre

RECURSIVE Replace(_, _, _)
\* cs.replace(old, new) for a non-empty old: every non-overlapping
\* occurrence, scanning from the left.
Replace(cs, old, new) ==
    IF Len(cs) < Len(old) THEN cs
    ELSE IF StartsWith(cs, old)
         THEN new \o Replace(SubSeq(cs, Len(old) + 1, Len(cs)), old, new)
         ELSE <<Head(cs)>> \o Replace(Tail(cs), old, new)

DigitChars == <<"0", "1", "2", "3", "4", "5", "6", "7", "8", "9">>

RECURSIVE Decimal(_)
\* str(k) / f"{k}" for k >= 0
Decimal(k) ==
    IF k < 10 THEN <<DigitChars[k + 1]>>
    ELSE Decimal(k \div 10) \o <<DigitChars[(k % 10) + 1]>>

\* f"{k:02d}" and strftime's %d for 0 <= k
Pad2(k) == IF k < 10 THEN <<"0">> \o Decimal(k) ELSE Decimal(k)

DigitValue(c) == CHOOSE i \in 0..9 : DigitChars[i + 1] = c
IsDigit(c) == \E i \in 1..10 : DigitChars[i] = c

\* list[i] with Python's indexing: a negative i counts from the end
PyIndex(list, i) == IF i < 0 THEN list[Len(list) + i + 1] ELSE list[i + 1]

(***************************************************************************)
(* ref_to_branch                                                           *)
(***************************************************************************)
RefsHeads == <<"r", "e", "f", "s", "/", "h", "e", "a", "d", "s", "/">>

ref_to_branch(ref) ==
    IF ~Truthy(ref) THEN Ok(JStr(<<"u", "n", "k", "n", "o", "w", "n">>))
    ELSE IF ~IsStrValue(ref) THEN Raise      \* no startswith on it
    ELSE IF StartsWith(ref.s, RefsHeads)
         THEN Ok(JStr(Replace(ref.s, RefsHeads, <<>>)))
         ELSE Ok(ref)

(***************************************************************************)
(* datetime: a naive UTC instant of the year 2021, counted in minutes      *)
(* from 2021-01-01T00:00.                                                  *)
(***************************************************************************)
\* the year every datetime of the model lies in, as strftime("%Y") prints it
YearText == <<"2", "0", "2", "1">>
MonthDays == <<31, 28, 31, 30, 31, 30, 31, 31, 30, 31, 30, 31>>
MonthNames == << <<"J", "a", "n", "u", "a", "r", "y">>, <<"F", "e", "b", "r", "u", "a", "r", "y">>, <<"M", "a", "r", "c", "h">>, <<"A", "p", "r", "i", "l">>, <<"M", "a", "y">>, <<"J", "u", "n", "e">>,
                 <<"J", "u", "l", "y">>, <<"A", "u", "g", "u", "s", "t">>, <<"S", "e", "p", "t", "e", "m", "b", "e", "r">>, <<"O", "c", "t", "o", "b", "e", "r">>, <<"N", "o", "v", "e", "m", "b", "e", "r">>,
                 <<"D", "e", "c", "e", "m", "b", "e", "r">> >>

RECURSIVE DaysBefore(_)
DaysBefore(month) ==
    IF month = 1 THEN 0 ELSE DaysBefore(month - 1) + MonthDays[month - 1]

MinuteOf(month, day, hour, minute) ==
    ((DaysBefore(month) + day - 1) * 24 + hour) * 60 + minute

\* the month of every day of the year, and the days before every month
MonthOfDay ==
    [d \in 0..(DaysBefore(12) + MonthDays[12] - 1) |->
        CHOOSE m \in 1..12 : DaysBefore(m) <= d /\ d < DaysBefore(m) + MonthDays[m]]
FirstDayOf == [m \in 1..12 |-> DaysBefore(m)]

DayOfYear(dt) == dt.n \div 1440
DtMonth(dt) == MonthOfDay[DayOfYear(dt)]
DtDay(dt) == DayOfYear(dt) - FirstDayOf[DtMonth(dt)] + 1
DtHour(dt) == (dt.n \div 60) % 24
DtMinute(dt) == dt.n % 60

(***************************************************************************)
(* format_timestamp                                                        *)
(***************************************************************************)
\* the suffix with the range 24..30 forgotten
ordinal_suffix_first_range_only(day) ==
    IF 4 <= day /\ day <= 20 THEN <<"t", "h">>
    ELSE IF (day % 10) <= 3
         THEN PyIndex(<< <<"s", "t">>, <<"n", "d">>, <<"r", "d">> >>, (day % 10) - 1)
         ELSE <<"t", "h">>

\* lines 62-66: the suffix put after the day
ordinal_suffix(day) ==
    IF (4 <= day /\ day <= 20) \/ (24 <= day /\ day <= 30) THEN <<"t", "h">>
    ELSE IF (day % 10) <= 3
         THEN PyIndex(<< <<"s", "t">>, <<"n", "d">>, <<"r", "d">> >>, (day % 10) - 1)
         ELSE <<"t", "h">>

format_timestamp(dt0, now) ==
    LET dt == IF IsDatetime(dt0) THEN dt0 ELSE now
        day == DtDay(dt)
        suffix == ordinal_suffix(day)
        \* strftime("%d<suffix> %B %Y"): %d is the day zero-padded to two digits
        date_str == Pad2(day) \o suffix \o <<" ">> \o MonthNames[DtMonth(dt)]
                    \o <<" ">> \o YearText
        hour == IF DtHour(dt) % 12 = 0 THEN 12 ELSE DtHour(dt) % 12
        minute == DtMinute(dt)
        ampm == IF DtHour(dt) < 12 THEN <<"A", "M">> ELSE <<"P", "M">>
        time_str == Decimal(hour) \o <<":">> \o Pad2(minute) \o <<" ">> \o ampm
    IN  date_str \o <<" ", "-", " ">> \o time_str \o <<" ", "U", "T", "C">>

(***************************************************************************)
(* parse_github_timestamp.  The model's datetimes are the minutes of 2021, *)
(* so the texts drawn as inputs are of that year; a text of the shape      *)
(* GitHub sends, YYYY-MM-DDTHH:MM:SSZ, is parsed field by field and        *)
(* anything else makes fromisoformat raise ValueError.                     *)
(***************************************************************************)
TwoDigits(cs, i) == DigitValue(cs[i]) * 10 + DigitValue(cs[i + 1])

IsoShape(cs) ==
    /\ Len(cs) = 25
    /\ \A i \in {1, 2, 3, 4, 6, 7, 9, 10, 12, 13, 15, 16, 18, 19} : IsDigit(cs[i])
    /\ cs[5] = "-" /\ cs[8] = "-" /\ cs[11] = "T" /\ cs[14] = ":" /\ cs[17] = ":"
    /\ SubSeq(cs, 20, 25) = <<"+", "0", "0", ":", "0", "0">>

IsoValid(cs) ==
    /\ IsoShape(cs)
    /\ SubSeq(cs, 1, 4) = YearText
    /\ TwoDigits(cs, 6) \in 1..12
    /\ TwoDigits(cs, 9) >= 1 /\ TwoDigits(cs, 9) <= MonthDays[TwoDigits(cs, 6)]
    /\ TwoDigits(cs, 12) <= 23
    /\ TwoDigits(cs, 15) <= 59
    /\ TwoDigits(cs, 18) <= 59

parse_github_timestamp(ts_str, now) ==
    IF ~Truthy(ts_str) THEN Ok(now)
    ELSE IF ~IsStrValue(ts_str) THEN Raise   \* AttributeError: no replace; not caught
    ELSE LET cs == Replace(ts_str.s, <<"Z">>, <<"+", "0", "0", ":", "0", "0">>)
         IN  IF IsoValid(cs)
             THEN Ok(PyDatetime(MinuteOf(TwoDigits(cs, 6), TwoDigits(cs, 9),
                                         TwoDigits(cs, 12), TwoDigits(cs, 15))))
             ELSE Ok(now)                    \* ValueError, caught

(***************************************************************************)
(* The request body.  A payload maps the path of every field the handlers  *)
(* read to the JSON value found there; the fields of something that is not *)
(* an object are absent.                                                   *)
(***************************************************************************)
Parent ==
    [ body |-> "body", ref |-> "body", action |-> "body",
      repository |-> "body", repository_name |-> "repository",
      repository_full_name |-> "repository",
      pusher |-> "body", pusher_name |-> "pusher",
      sender |-> "body", sender_login |-> "sender",
      pull_request |-> "body", pr_merged |-> "pull_request",
      pr_merged_at |-> "pull_request", pr_created_at |-> "pull_request",
      pr_base |-> "pull_request", pr_base_ref |-> "pr_base",
      pr_head |-> "pull_request", pr_head_ref |-> "pr_head",
      pr_merged_by |-> "pull_request", pr_merged_by_login |-> "pr_merged_by",
      pr_user |-> "pull_request", pr_user_login |-> "pr_user" ]

Paths == DOMAIN Parent

RECURSIVE Present(_, _)
\* whether every object on the way to the field is an object
Present(p, path) ==
    IF path = "body" THEN TRUE
    ELSE IsDict(p[Parent[path]]) /\ Present(p, Parent[path])

Canon(p) == [path \in Paths |-> IF Present(p, path) THEN p[path] ELSE JAbsent]

EmptyDict == Canon([path \in Paths |-> IF path = "body" THEN JObj(0) ELSE JAbsent])

\* request.get_json(force=True, silent=True) or {}
get_json_or_empty(body) ==
    IF body["body"].t = "invalid" \/ ~Truthy(body["body"]) THEN EmptyDict ELSE body

\* obj.get(...) on what was read from `path`, or on `default` when it is absent:
\* only a dict has .get
CanGet(p, path) == IsDict(p[path]) \/ p[path].t = "absent"
\* (obj.get(path) or {}).get(...)
CanGetOrEmpty(p, path) == IsDict(p[path]) \/ ~Truthy(p[path])

(***************************************************************************)
(* The documents.                                                          *)
(***************************************************************************)
Doc(action, author, repo, from_branch, to_branch, timestamp, created_at) ==
    [ action |-> action, author |-> author, repo |-> repo,
      from_branch |-> from_branch, to_branch |-> to_branch,
      timestamp |-> timestamp, created_at |-> created_at ]

NoDoc == Doc(JAbsent, JAbsent, JAbsent, JAbsent, JAbsent, JAbsent, JAbsent)

Produced(doc) == [kind |-> "doc", doc |-> doc]
Nothing == [kind |-> "none", doc |-> NoDoc]
Raised == [kind |-> "raise", doc |-> NoDoc]

(***************************************************************************)
(* handle_push.  now1 and now2 are the two readings of the clock.          *)
(***************************************************************************)
handle_push(payload, now1, now2) ==
    IF ~IsDict(payload["body"]) THEN Raised
    ELSE IF ~CanGet(payload, "repository") \/ ~CanGet(payload, "pusher") THEN Raised
    ELSE LET repo == GetOr(payload["repository_name"], JStr(<<"u", "n", "k", "n", "o", "w", "n", "-", "r", "e", "p", "o">>))
             pusher == GetOr(payload["pusher_name"], JStr(<<"u", "n", "k", "n", "o", "w", "n", "-", "u", "s", "e", "r">>))
             ref == GetOr(payload["ref"], JStr(<<>>))
         IN  IF ~IsStrValue(ref) THEN Raised        \* no replace on it
             ELSE Produced(Doc(JStr(<<"p", "u", "s", "h">>), pusher, repo, JNull,
                               JStr(Replace(ref.s, RefsHeads, <<>>)),
                               PyDatetime(now1), PyDatetime(now2)))

(***************************************************************************)
(* handle_pull_request                                                     *)
(***************************************************************************)
\* (obj.get("login") or (payload.get("sender") or {}).get("login") or "Unknown"),
\* obj being pr.get(who) or {}: the sender is looked at only when the first
\* login is falsy
LoginRaises(payload, who) ==
    \/ ~CanGetOrEmpty(payload, who)
    \/ /\ ~Truthy(IF who = "pr_user" THEN payload["pr_user_login"]
                                     ELSE payload["pr_merged_by_login"])
       /\ ~CanGetOrEmpty(payload, "sender")

LoginOf(payload, who) ==
    PyOr(PyOr(GetNone(IF who = "pr_user" THEN payload["pr_user_login"]
                                         ELSE payload["pr_merged_by_login"]),
              GetNone(payload["sender_login"])),
         JStr(<<"U", "n", "k", "n", "o", "w", "n">>))

\* lines 101-104 and 119-122: base, head and the two branch names
BranchesRaise(payload) ==
    \/ ~CanGet(payload, "pr_base") \/ ~CanGet(payload, "pr_head")
    \/ ref_to_branch(GetOr(payload["pr_base_ref"], JStr(<<>>))).raised
    \/ ref_to_branch(GetOr(payload["pr_head_ref"], JStr(<<>>))).raised

ToBranch(payload) == ref_to_branch(GetOr(payload["pr_base_ref"], JStr(<<>>))).v
FromBranch(payload) == ref_to_branch(GetOr(payload["pr_head_ref"], JStr(<<>>))).v

\* (payload.get("repository") or {}).get("full_name", "")
FullName(payload) == GetOr(payload["repository_full_name"], JStr(<<>>))

\* line 99: action == "closed" and merged
is_merge(payload) ==
    /\ EqStr(GetNone(payload["action"]), <<"c", "l", "o", "s", "e", "d">>)
    /\ Truthy(GetOr(payload["pr_merged"], JBool(FALSE)))

\* line 117
is_submission(payload) ==
    \/ EqStr(GetNone(payload["action"]), <<"o", "p", "e", "n", "e", "d">>)
    \/ EqStr(GetNone(payload["action"]), <<"s", "y", "n", "c", "h", "r", "o", "n", "i", "z", "e">>)

handle_pull_request(payload, now1, now2) ==
    IF ~IsDict(payload["body"]) \/ ~CanGetOrEmpty(payload, "pull_request") THEN Raised
    ELSE IF is_merge(payload)
    THEN LET merged_at == GetNone(payload["pr_merged_at"])
             ts == IF Truthy(merged_at)
                   THEN parse_github_timestamp(merged_at, PyDatetime(now1))
                   ELSE Ok(PyDatetime(now1))
         IN  IF \/ BranchesRaise(payload) \/ LoginRaises(payload, "pr_merged_by")
                \/ ts.raised \/ ~CanGetOrEmpty(payload, "repository")
             THEN Raised
             ELSE Produced(Doc(JStr(<<"m", "e", "r", "g", "e">>), LoginOf(payload, "pr_merged_by"),
                               FullName(payload), FromBranch(payload),
                               ToBranch(payload), ts.v, PyDatetime(now2)))
    ELSE IF is_submission(payload)
    THEN LET ts == parse_github_timestamp(GetNone(payload["pr_created_at"]),
                                          PyDatetime(now1))
         IN  IF \/ BranchesRaise(payload) \/ LoginRaises(payload, "pr_user")
                \/ ts.raised \/ ~CanGetOrEmpty(payload, "repository")
             THEN Raised
             ELSE Produced(Doc(JStr(<<"p", "u", "l", "l", "_", "r", "e", "q", "u", "e", "s", "t">>), LoginOf(payload, "pr_user"),
                               FullName(payload), FromBranch(payload),
                               ToBranch(payload), ts.v, PyDatetime(now2)))
    ELSE Nothing

(***************************************************************************)
(* webhook, up to its call of insert_one: the response it is heading for   *)
(* and the document it made.  An exception that leaves the view is Flask's *)
(* 500 response.                                                           *)
(***************************************************************************)
Outcome(status, doc) == [status |-> status, doc |-> doc]

webhook(event, body, now1, now2) ==
    LET payload == get_json_or_empty(body)
        made == IF event = "push" THEN handle_push(payload, now1, now2)
                ELSE IF event = "pull_request"
                     THEN handle_pull_request(payload, now1, now2)
                     ELSE Nothing
    IN  IF event = "ping" THEN Outcome("pong", NoDoc)
        ELSE IF made.kind = "raise" THEN Outcome("error", NoDoc)
        ELSE IF made.kind = "doc" THEN Outcome("stored", made.doc)
        ELSE Outcome("ignored", NoDoc)

\* debug_insert's document: it has no branches and no timestamp
debug_doc(now) ==
    Doc(JStr(<<"d", "e", "b", "u", "g">>), JStr(<<"a", "n", "k", "i", "t", "h">>), JStr(<<"m", "a", "n", "u", "a", "l", "-", "t", "e", "s", "t">>),
        JAbsent, JAbsent, JAbsent, PyDatetime(now))

(***************************************************************************)
(* get_events: find().sort("created_at", -1).limit(100), each document     *)
(* reshaped.  A stored document is [id, doc]; the id stands for the        *)
(* ObjectId the store gives it.  The order of documents with equal         *)
(* created_at is the store's choice: `newestFirst` is that choice.         *)
(***************************************************************************)
Limit == 100

\* whether document a comes before document b in the cursor's order:
\* descending created_at, documents of equal created_at in the store's order
Before(a, b, newestFirst) ==
    \/ a.doc.created_at.n > b.doc.created_at.n
    \/ /\ a.doc.created_at.n = b.doc.created_at.n
       /\ (IF newestFirst THEN a.id > b.id ELSE a.id < b.id)

\* the documents from the last inserted to the first.  Before orders the
\* documents totally, so the sorted cursor is the same from any arrangement.
Reversed(docs) == [k \in 1..Len(docs) |-> docs[Len(docs) + 1 - k]]

\* the cursor sorted with .sort("created_at", 1): oldest first
find_sorted_ascending(docs, newestFirst) ==
    LET Cmp(a, b) == Before(b, a, newestFirst)
        n == IF Len(docs) < Limit THEN Len(docs) ELSE Limit
    IN  SubSeq(SortSeq(docs, Cmp), 1, n)

\* events_collection.find().sort("created_at", -1).limit(100)
find_sorted(docs, newestFirst) ==
    LET Cmp(a, b) == Before(a, b, newestFirst)
        n == IF Len(docs) < Limit THEN Len(docs) ELSE Limit
    IN  SubSeq(SortSeq(Reversed(docs), Cmp), 1, n)

\* datetime.isoformat() of a naive datetime, and the "Z" put after it; the
\* model's instants are whole minutes
IsoFormatZ(dt) ==
    YearText \o <<"-">> \o Pad2(DtMonth(dt)) \o <<"-">> \o Pad2(DtDay(dt)) \o <<"T">>
    \o Pad2(DtHour(dt)) \o <<":">> \o Pad2(DtMinute(dt)) \o <<":", "0", "0", "Z">>

\* lines 150-167: one element of the response
reshape(e, now) ==
    LET ts == GetNone(e.doc.timestamp)
        created == GetNone(e.doc.created_at)
    IN  [ id |-> Decimal(e.id),
          action |-> GetNone(e.doc.action),
          author |-> GetNone(e.doc.author),
          to_branch |-> GetNone(e.doc.to_branch),
          from_branch |-> GetNone(e.doc.from_branch),
          repo |-> GetNone(e.doc.repo),
          timestamp_formatted |->
              IF IsDatetime(ts) THEN format_timestamp(ts, now) ELSE <<>>,
          timestamp |-> IF IsDatetime(ts) THEN JStr(IsoFormatZ(ts)) ELSE ts,
          created_at |->
              IF IsDatetime(created) THEN JStr(IsoFormatZ(created)) ELSE created ]

get_events(docs, newestFirst, now) ==
    LET found == find_sorted(docs, newestFirst)
    IN  [i \in 1..Len(found) |-> reshape(found[i], now)]

(***************************************************************************)
(* The requests.                                                           *)
(***************************************************************************)
Events == {"push", "pull_request", "ping", "issues", ""}

IsoText == YearText \o <<"-", "0", "4", "-", "0", "1", "T", "2", "1", ":", "3", "0", ":", "0", "0", "Z">>

\* a delivery with every field the handlers read, as GitHub fills them
FullPayload(action, merged) ==
    [ body |-> JObj(1), ref |-> JStr(<<"r", "e", "f", "s", "/", "h", "e", "a", "d", "s", "/", "m", "a", "i", "n">>), action |-> JStr(action),
      repository |-> JObj(1), repository_name |-> JStr(<<"r", "e", "p", "o", "1">>),
      repository_full_name |-> JStr(<<"o", "/", "r", "e", "p", "o", "1">>),
      pusher |-> JObj(1), pusher_name |-> JStr(<<"a", "l", "i", "c", "e">>),
      sender |-> JObj(1), sender_login |-> JStr(<<"d", "a", "v", "e">>),
      pull_request |-> JObj(1), pr_merged |-> JBool(merged),
      pr_merged_at |-> IF merged THEN JStr(IsoText) ELSE JNull,
      pr_created_at |-> JStr(IsoText),
      pr_base |-> JObj(1), pr_base_ref |-> JStr(<<"r", "e", "f", "s", "/", "h", "e", "a", "d", "s", "/", "m", "a", "i", "n">>),
      pr_head |-> JObj(1), pr_head_ref |-> JStr(<<"r", "e", "f", "s", "/", "h", "e", "a", "d", "s", "/", "f", "e", "a", "t", "u", "r", "e">>),
      pr_merged_by |-> IF merged THEN JObj(1) ELSE JNull,
      pr_merged_by_login |-> JStr(<<"c", "a", "r", "o", "l">>),
      pr_user |-> JObj(1), pr_user_login |-> JStr(<<"b", "o", "b">>) ]

ActionTexts == { <<"o", "p", "e", "n", "e", "d">>, <<"s", "y", "n", "c", "h", "r", "o", "n", "i", "z", "e">>, <<"c", "l", "o", "s", "e", "d">>, <<"l", "a", "b", "e", "l", "e", "d">> }

BasePayloads == {Canon(FullPayload(a, m)) : a \in ActionTexts, m \in BOOLEAN}

\* what a field may hold instead: nothing, null, and values of every JSON type
Palette ==
    { JAbsent, JNull, JBool(FALSE), JBool(TRUE), JNum(0), JNum(5),
      JStr(<<>>), JStr(<<"x">>), JList(0), JList(1), JObj(1) }

RECURSIVE Deviated(_, _)
\* the payloads that differ from one of S in at most k fields
Deviated(S, k) ==
    IF k = 0 THEN S
    ELSE Deviated(S \cup {Canon([p EXCEPT ![f] = v]) :
                              p \in S, f \in Paths, v \in Palette}, k - 1)

\* a body that is no JSON at all
InvalidBody == Canon([path \in Paths |-> IF path = "body" THEN JInvalid ELSE JAbsent])

\* the bodies that differ from a well-formed one in at most k fields, and the
\* body that is no JSON
RichBodies(k) == Deviated(BasePayloads, k) \cup {InvalidBody}

Request(event, body) == [event |-> event, body |-> body]

RichRequests(k) == {Request(ev, b) : ev \in Events, b \in RichBodies(k)}

\* the deliveries of the running system: well-formed ones, of every outcome
Requests ==
    { Request("push", Canon(FullPayload(<<"o", "p", "e", "n", "e", "d">>, FALSE))),
      Request("pull_request", Canon(FullPayload(<<"o", "p", "e", "n", "e", "d">>, FALSE))),
      Request("pull_request", Canon(FullPayload(<<"c", "l", "o", "s", "e", "d">>, TRUE))),
      Request("pull_request", Canon(FullPayload(<<"c", "l", "o", "s", "e", "d">>, FALSE))),
      Request("ping", EmptyDict) }

(***************************************************************************)
(* The running system.  Flask serves each request on a thread of its own,  *)
(* so a webhook request is two steps: the view up to insert_one (reading   *)
(* the clock as it builds the document), and insert_one with the response. *)
(***************************************************************************)
Workers == 1..NumWorkers

StartMinute == MinuteOf(4, 1, 21, 28)
LastMinute == StartMinute + MaxTicks

Stored(id, doc) == [id |-> id, doc |-> doc]

\* a collection that earlier runs have filled: Limit - 1 pushes, a minute apart
NumOld == Limit - 1
OldDoc(i) ==
    Doc(JStr(<<"p", "u", "s", "h">>), JStr(<<"a", "l", "i", "c", "e">>), JStr(<<"r", "e", "p", "o", "1">>), JNull, JStr(<<"m", "a", "i", "n">>),
        PyDatetime(StartMinute - NumOld + i - 1),
        PyDatetime(StartMinute - NumOld + i - 1))
OldStore == [i \in 1..NumOld |-> Stored(i, OldDoc(i))]

NotCalled == [done |-> FALSE, out |-> <<>>]

\* the response of GET /api/events while it is being sent
NoResponse == [sent |-> FALSE, events |-> <<>>]
Response(events) == [sent |-> TRUE, events |-> events]

\* No step reads events_out, and the query is one step: a response on its way
\* commutes with every other step, so the other steps are taken with none in
\* flight.
NoneInFlight == ~events_out.sent
Returned(out) == [done |-> TRUE, out |-> out]

InitServer ==
    /\ clock = StartMinute
    /\ pc = [w \in Workers |-> "idle"]
    /\ held = [w \in Workers |-> NoDoc]
    /\ resp = [w \in Workers |-> "none"]
    /\ events_out = NoResponse
    /\ ret = NotCalled

Init ==
    /\ InitServer
    /\ store = <<>>
    /\ remaining = MaxRequests
    /\ arg = JNull

\* POST /webhook, lines 172-185, on the first free thread
WebhookReceive(w, r) ==
    /\ NoneInFlight
    /\ pc[w] = "idle"
    /\ \A v \in Workers : v < w => pc[v] # "idle"
    /\ remaining > 0
    /\ \E d \in 0..1 :
        /\ clock + d <= LastMinute
        /\ clock' = clock + d
        /\ LET out == webhook(r.event, r.body, clock, clock + d)
           IN  /\ pc' = [pc EXCEPT ![w] =
                            IF out.status = "stored" THEN "insert" ELSE "done"]
               /\ held' = [held EXCEPT ![w] = out.doc]
               /\ resp' = [resp EXCEPT ![w] =
                              IF out.status = "stored" THEN "none" ELSE out.status]
    /\ remaining' = remaining - 1
    /\ UNCHANGED <<store, events_out, arg, ret>>

\* POST /webhook, lines 186-188
WebhookInsert(w) ==
    /\ NoneInFlight
    /\ pc[w] = "insert"
    /\ store' = Append(store, Stored(Len(store) + 1, held[w]))
    /\ pc' = [pc EXCEPT ![w] = "done"]
    /\ resp' = [resp EXCEPT ![w] = "stored"]
    /\ held' = [held EXCEPT ![w] = NoDoc]
    /\ UNCHANGED <<clock, remaining, events_out, arg, ret>>

\* the response is sent and the thread is free again
Finish(w) ==
    /\ NoneInFlight
    /\ pc[w] = "done"
    /\ pc' = [pc EXCEPT ![w] = "idle"]
    /\ resp' = [resp EXCEPT ![w] = "none"]
    /\ UNCHANGED <<store, clock, held, remaining, events_out, arg, ret>>

\* GET /debug-insert
DebugInsert ==
    /\ NoneInFlight
    /\ remaining > 0
    /\ store' = Append(store, Stored(Len(store) + 1, debug_doc(clock)))
    /\ remaining' = remaining - 1
    /\ UNCHANGED <<clock, pc, held, resp, events_out, arg, ret>>

\* GET /api/events.  It reads the collection and nothing else, and every
\* collection the threads can build is also built with all of them idle, so
\* the query is taken there.
GetEvents ==
    /\ NoneInFlight
    /\ \A w \in Workers : pc[w] = "idle"
    /\ \E newestFirst \in BOOLEAN :
          events_out' = Response(get_events(store, newestFirst, PyDatetime(clock)))
    /\ UNCHANGED <<store, clock, pc, held, resp, remaining, arg, ret>>

\* the response has gone out; the server keeps nothing of it
EventsSent ==
    /\ events_out.sent
    /\ events_out' = NoResponse
    /\ UNCHANGED <<store, clock, pc, held, resp, remaining, arg, ret>>

\* GET /: the page is rendered, nothing changes
Index ==
    /\ NoneInFlight
    /\ UNCHANGED vars

\* time passes
Tick ==
    /\ NoneInFlight
    /\ clock < LastMinute
    /\ clock' = clock + 1
    /\ UNCHANGED <<store, pc, held, resp, remaining, events_out, arg, ret>>

Next ==
    \/ \E w \in Workers, r \in Requests : WebhookReceive(w, r)
    \/ \E w \in Workers : WebhookInsert(w)
    \/ \E w \in Workers : Finish(w)
    \/ DebugInsert
    \/ GetEvents
    \/ EventsSent
    \/ Index
    \/ Tick

Spec == Init /\ [][Next]_vars

(***************************************************************************)
(* The same system over a collection that already holds Limit - 1          *)
(* documents.                                                              *)
(***************************************************************************)
InitQuery ==
    /\ InitServer
    /\ store = OldStore
    /\ remaining = MaxRequests
    /\ arg = JNull

SpecQuery == InitQuery /\ [][Next]_vars

(***************************************************************************)
(* One delivery of any shape, handled on its own: arg is the delivery.     *)
(***************************************************************************)
InitDelivery ==
    /\ InitServer
    /\ store = <<>>
    /\ remaining = 1
    /\ arg \in RichRequests(MaxDeviations)

NextDelivery ==
    \/ WebhookReceive(1, arg)
    \/ WebhookInsert(1)
    \/ Finish(1)

SpecDelivery == InitDelivery /\ [][NextDelivery]_vars

(***************************************************************************)
(* ref_to_branch and format_timestamp applied to an argument.              *)
(***************************************************************************)
Pieces == { RefsHeads, <<"r", "e", "f", "s", "/">>, <<"h", "e", "a", "d", "s", "/">>, <<"m", "a", "i", "n">>, <<"x">> }

RECURSIVE Joined(_)
\* the texts made of at most k pieces
Joined(k) ==
    IF k = 0 THEN {<<>>}
    ELSE Joined(k - 1) \cup {a \o b : a \in Joined(k - 1), b \in Pieces}

RefInputs == {JNull} \cup {JStr(cs) : cs \in Joined(MaxPieces)}

InitRef ==
    /\ InitServer
    /\ store = <<>>
    /\ remaining = 0
    /\ arg \in RefInputs

CallRefToBranch ==
    /\ ~ret.done
    /\ ret' = Returned(ref_to_branch(arg))
    /\ UNCHANGED <<store, clock, pc, held, resp, remaining, events_out, arg>>

SpecRef == InitRef /\ [][CallRefToBranch]_vars

Hours == 0..23
Minutes == {0, 5, 30, 59}

Dates == {md \in (1..12) \X (1..31) : md[2] <= MonthDays[md[1]]}

FormatInputs ==
    {PyDatetime(MinuteOf(md[1], md[2], h, mi)) :
        md \in Dates, h \in Hours, mi \in Minutes}

InitFormat ==
    /\ InitServer
    /\ store = <<>>
    /\ remaining = 0
    /\ arg \in FormatInputs

CallFormatTimestamp ==
    /\ ~ret.done
    /\ ret' = Returned(format_timestamp(arg, PyDatetime(clock)))
    /\ UNCHANGED <<store, clock, pc, held, resp, remaining, events_out, arg>>

SpecFormat == InitFormat /\ [][CallFormatTimestamp]_vars

(***************************************************************************)
(* The properties.                                                         *)
(***************************************************************************)
NonEmptyStr(v) == v.t = "str" /\ v.s # <<>>
IsText(v, texts) == \E cs \in texts : EqStr(v, cs)

\* the document the delivery `arg` has led to, if any
MadeDoc ==
    IF pc[1] = "insert" THEN held[1]
    ELSE IF Len(store) > 0 THEN store[1].doc ELSE NoDoc
Handled == remaining = 0

StatedMerge(b) == EqStr(b["action"], <<"c", "l", "o", "s", "e", "d">>) /\ b["pr_merged"] = JBool(TRUE)
StatedSubmission(b) == ~StatedMerge(b) /\ IsText(b["action"], { <<"o", "p", "e", "n", "e", "d">>, <<"s", "y", "n", "c", "h", "r", "o", "n", "i", "z", "e">> })

\* C1: for every pull_request payload, handle_pull_request makes a "merge"
\* record exactly when action == "closed" and merged == true, otherwise a
\* "pull_request" record exactly when action is "opened" or "synchronize",
\* and no record in every other case.
C1_Classification ==
    (Handled /\ arg.event = "pull_request") =>
        /\ StatedMerge(arg.body) => EqStr(MadeDoc.action, <<"m", "e", "r", "g", "e">>)
        /\ StatedSubmission(arg.body) => EqStr(MadeDoc.action, <<"p", "u", "l", "l", "_", "r", "e", "q", "u", "e", "s", "t">>)
        /\ (~StatedMerge(arg.body) /\ ~StatedSubmission(arg.body)) => MadeDoc = NoDoc

\* C2: in every reachable state every stored record's action is one of
\* "push", "pull_request" and "merge".
C2_ActionsClosed ==
    \A i \in 1..Len(store) :
        IsText(store[i].doc.action, { <<"p", "u", "s", "h">>, <<"p", "u", "l", "l", "_", "r", "e", "q", "u", "e", "s", "t">>, <<"m", "e", "r", "g", "e">> })

\* a pull_request delivery whose action is not one the handler acts on
UnhandledAction(b) ==
    /\ ~(EqStr(b["action"], <<"c", "l", "o", "s", "e", "d">>) /\ Truthy(b["pr_merged"]))
    /\ ~IsText(b["action"], { <<"o", "p", "e", "n", "e", "d">>, <<"s", "y", "n", "c", "h", "r", "o", "n", "i", "z", "e">> })
YieldsNoRecord(r) ==
    \/ r.event \notin {"push", "pull_request", "ping"}
    \/ r.event = "pull_request" /\ UnhandledAction(r.body)

\* C3: a webhook request changes the store only when it answers "stored", and
\* then by appending one record; a ping answers "pong" and a request that
\* yields no record answers "ignored", both leaving the store as it is.
C3_Frame ==
    [][ /\ store' # store =>
              /\ resp'[1] = "stored"
              /\ Len(store') = Len(store) + 1
              /\ SubSeq(store', 1, Len(store)) = store
        /\ (pc[1] # "done" /\ pc'[1] = "done") =>
              /\ arg.event = "ping" => (resp'[1] = "pong" /\ store' = store)
              /\ YieldsNoRecord(arg) => (resp'[1] = "ignored" /\ store' = store)
      ]_vars

\* C4: whatever the event type and the body, the webhook handler raises no
\* error: it ends with "pong", "stored" or "ignored".
C4_NeverFails ==
    pc[1] = "done" => resp[1] \in {"pong", "stored", "ignored"}

FirstNonEmpty(a, b, fallback) ==
    IF NonEmptyStr(a) THEN a ELSE IF NonEmptyStr(b) THEN b ELSE JStr(fallback)

StatedAuthor(action, b) ==
    IF EqStr(action, <<"p", "u", "s", "h">>)
    THEN FirstNonEmpty(b["pusher_name"], b["pusher_name"], <<"u", "n", "k", "n", "o", "w", "n", "-", "u", "s", "e", "r">>)
    ELSE IF EqStr(action, <<"m", "e", "r", "g", "e">>)
    THEN FirstNonEmpty(b["pr_merged_by_login"], b["sender_login"], <<"U", "n", "k", "n", "o", "w", "n">>)
    ELSE FirstNonEmpty(b["pr_user_login"], b["sender_login"], <<"U", "n", "k", "n", "o", "w", "n">>)

\* C5: every record stored through the webhook has a non-empty author string:
\* the first non-empty of the source fields, else the literal fallback.
C5_AuthorNonEmpty ==
    \A i \in 1..Len(store) :
        /\ NonEmptyStr(store[i].doc.author)
        /\ store[i].doc.author = StatedAuthor(store[i].doc.action, arg.body)

\* C6: ref_to_branch(r) is r without its leading "refs/heads/" (later
\* occurrences kept) when r starts with it, r itself for any other non-empty r,
\* and "unknown" for null and "".
C6_RefToBranch ==
    ret.done =>
        IF ~Truthy(arg) THEN ret.out = Ok(JStr(<<"u", "n", "k", "n", "o", "w", "n">>))
        ELSE IF StartsWith(arg.s, RefsHeads)
             THEN ret.out = Ok(JStr(SubSeq(arg.s, Len(RefsHeads) + 1, Len(arg.s))))
             ELSE ret.out = Ok(arg)

StatedSuffix(day) ==
    IF 11 <= day /\ day <= 20 THEN <<"t", "h">>
    ELSE CASE day % 10 = 1 -> <<"s", "t">>
           [] day % 10 = 2 -> <<"n", "d">>
           [] day % 10 = 3 -> <<"r", "d">>
           [] OTHER -> <<"t", "h">>

StatedFormat(dt) ==
    Decimal(DtDay(dt)) \o StatedSuffix(DtDay(dt)) \o <<" ">> \o MonthNames[DtMonth(dt)]
    \o <<" ">> \o YearText \o <<" ", "-", " ">>
    \o Decimal(IF DtHour(dt) % 12 = 0 THEN 12 ELSE DtHour(dt) % 12)
    \o <<":">> \o Pad2(DtMinute(dt)) \o <<" ">>
    \o (IF DtHour(dt) < 12 THEN <<"A", "M">> ELSE <<"P", "M">>) \o <<" ", "U", "T", "C">>

\* C7: format_timestamp returns "<day><suffix> <Month> <Year> - <hour>:<minute>
\* <AM|PM> UTC" with the day written without a leading zero, the hour 1..12
\* unpadded and the minute on two digits.
C7_Format == ret.done => ret.out = StatedFormat(arg)

\* the letters between the digits of the day and the first space
SuffixIn(text) ==
    LET first == CHOOSE i \in 1..Len(text) :
                     ~IsDigit(text[i]) /\ \A j \in 1..(i - 1) : IsDigit(text[j])
        space == CHOOSE i \in 1..Len(text) :
                     text[i] = " " /\ \A j \in 1..(i - 1) : text[j] # " "
    IN  SubSeq(text, first, space - 1)

\* C10: for every day 1..31 the suffix after the day is "th" for 11..20 and
\* otherwise follows the last digit: 1 "st", 2 "nd", 3 "rd", else "th".
C10_OrdinalSuffix == ret.done => SuffixIn(ret.out) = StatedSuffix(DtDay(arg))

C10_Witness == ret.done /\ DtDay(arg) = 23 /\ SuffixIn(ret.out) = <<"r", "d">>

\* C9: a record inserted later never has a created_at smaller than a record
\* inserted earlier (stated of the records the webhook stores).
C9_CreatedAtMonotone ==
    \A i, j \in 1..Len(store) :
        (/\ i < j
         /\ ~EqStr(store[i].doc.action, <<"d", "e", "b", "u", "g">>)
         /\ ~EqStr(store[j].doc.action, <<"d", "e", "b", "u", "g">>))
        => store[i].doc.created_at.n <= store[j].doc.created_at.n

RECURSIVE NumberOf(_)
\* the number a string of digits writes
NumberOf(cs) ==
    IF cs = <<>> THEN 0
    ELSE NumberOf(SubSeq(cs, 1, Len(cs) - 1)) * 10 + DigitValue(cs[Len(cs)])

\* C8: GET /api/events returns min(n, 100) elements, built from distinct
\* stored records: those with the greatest created_at, in descending order of
\* created_at, each with the action, author, repo, from_branch and to_branch
\* of its record (a field the record lacks reads as null).
C8_LatestEvents ==
    events_out.sent =>
        LET ev == events_out.events
            n == Len(store)
            src == SubSeq([k \in 1..Len(ev) |-> NumberOf(ev[k].id)], 1, Len(ev))
            known == \A k \in 1..Len(ev) :
                        src[k] \in 1..n /\ Decimal(store[src[k]].id) = ev[k].id
            returned == {src[k] : k \in 1..Len(ev)}
            key(i) == store[i].doc.created_at.n
        IN  /\ Len(ev) = IF n < Limit THEN n ELSE Limit
            /\ known
            /\ Cardinality(returned) = Len(ev)
            /\ \A k \in 1..(Len(ev) - 1) : key(src[k]) >= key(src[k + 1])
            /\ \A i \in (1..n) \ returned : \A k \in 1..Len(ev) : key(i) <= key(src[k])
            /\ \A k \in 1..Len(ev) :
                  LET d == store[src[k]].doc
                  IN  /\ ev[k].action = GetNone(d.action)
                      /\ ev[k].author = GetNone(d.author)
                      /\ ev[k].repo = GetNone(d.repo)
                      /\ ev[k].from_branch = GetNone(d.from_branch)
                      /\ ev[k].to_branch = GetNone(d.to_branch)

C8_Witness ==
    /\ events_out.sent
    /\ Len(store) > Limit
    /\ Len(events_out.events) = Limit
    /\ \E i, j \in 1..Len(store) :
          i < j /\ store[i].doc.created_at.n > store[j].doc.created_at.n

====
